---- MODULE Spec2Model ----
(***************************************************************************)
(* EnhancedDNCController of src/archive/hrm-dnc-web-integration.py: a      *)
(* fixed-capacity vector memory with content addressing, usage-driven      *)
(* allocation, temporal links, a precedence vector and a URL index.        *)
(*                                                                         *)
(* Floats are fixed-point integers: the float x is the integer x * Scale.  *)
(* Slots are 0-based as in the code; vectors are sequences over 1..len.    *)
(***************************************************************************)
EXTENDS Integers, Sequences, FiniteSets, Bags, TLC

\* ---------------------------------------------------------------- bounds
memory_size == 3
memory_dim == 2
Scale == 1000
ExpTerms == 12
MaxOps == 3
MaxPairWrites == 2
MaxStableOps == 5
MaxAddressedWrites == 3
MaxReportedCalls == 3
MaxOverwrites == 5
MaxBothWaysCalls == 3
NumCallers == 2
MaxTasks == 4

\* the priority up to which add_extraction_task appends without looking
PriorityThreshold == 5

\* clamp of F.normalize (eps = 1e-12): the smallest positive fixed-point number
Eps == 1

Slots == 0 .. (memory_size - 1)
Dims == 1 .. memory_dim

\* ------------------------------------------------------ float arithmetic
FDiv(a, b) == IF a >= 0 THEN a \div b ELSE -((-a) \div b)
FMul(a, b) == FDiv(a * b, Scale)
Max(a, b) == IF a >= b THEN a ELSE b
Abs(a) == IF a >= 0 THEN a ELSE -a

\* the tensor f with every entry computed, once
Eval(f) == f @@ <<>>

RECURSIVE SumSeq(_)
SumSeq(s) == IF Len(s) = 0 THEN 0 ELSE s[1] + SumSeq(Tail(s))

\* the sum over all slots of a tensor indexed by slot
SumSlots(f) == SumSeq([k \in 1 .. memory_size |-> f[k - 1]])

RECURSIVE SqrtSearch(_, _, _)
SqrtSearch(x, lo, hi) ==
    IF lo >= hi THEN lo
    ELSE LET mid == (lo + hi + 1) \div 2
         IN  IF mid * mid <= x THEN SqrtSearch(x, mid, hi)
                               ELSE SqrtSearch(x, lo, mid - 1)

Sqrt(x) == SqrtSearch(x, 0, IF x < 46340 THEN x ELSE 46340)

RECURSIVE ExpSeries(_, _, _)
ExpSeries(x, k, term) ==
    IF k > ExpTerms THEN 0
    ELSE term + ExpSeries(x, k + 1, FDiv(term * x, (k + 1) * Scale))

\* exp of a fixed-point number, as its power series
Exp(x) == ExpSeries(x, 0, Scale)

\* --------------------------------------------------------------- tensors
ZeroVec == [j \in Dims |-> 0]
UnitVec(d, m) == [j \in Dims |-> IF j = d THEN m ELSE 0]

\* F.normalize(v, dim=-1): v / max(||v||_2, eps)
normalize(v) ==
    LET norm == Sqrt(SumSeq([j \in 1 .. Len(v) |-> v[j] * v[j]]))
        den == Max(norm, Eps)
    IN  Eval([j \in 1 .. Len(v) |-> FDiv(v[j] * Scale, den)])

\* F.normalize(w, p=1, dim=0) of a tensor indexed by slot
normalize_l1(w) ==
    LET den == Max(SumSlots([i \in Slots |-> Abs(w[i])]), Eps)
    IN  Eval([i \in Slots |-> FDiv(w[i] * Scale, den)])

\* exp(x) without the division by the sum
softmax_unnormalized(x) == Eval([i \in Slots |-> Exp(x[i])])

\* F.softmax(x, dim=0)
softmax(x) ==
    LET e == Eval([i \in Slots |-> Exp(x[i])])
        total == SumSlots(e)
    IN  Eval([i \in Slots |-> FDiv(e[i] * Scale, total)])

\* ------------------------------------------------------------ controller
\* EnhancedDNCController.__init__; extraction_patterns and the read_weights and
\* write_weights attributes are left out: no method reads or assigns them
NewController ==
    [ memory |-> [i \in Slots |-> ZeroVec],
      usage |-> [i \in Slots |-> 0],
      precedence |-> [i \in Slots |-> 0],
      temporal_links |-> [i \in Slots |-> [j \in Slots |-> 0]],
      url_index |-> [k \in {} |-> 0],
      confidence_scores |-> [i \in Slots |-> 0],
      total_writes |-> 0,
      total_reads |-> 0 ]

\* torch.matmul(memory_norm, key_norm.T) raises unless the key has memory_dim entries
KeyFits(key) == Len(key) = memory_dim

\* the scaled similarity returned as it is, without the softmax
content_addressing_raw(c, key, beta) ==
    LET key_norm == normalize(key)
        memory_norm == Eval([i \in Slots |-> normalize(c.memory[i])])
        similarity == Eval([i \in Slots |->
                         SumSeq([j \in Dims |-> FMul(memory_norm[i][j], key_norm[j])])])
    IN  Eval([i \in Slots |-> FMul(beta, similarity[i])])

\* content_addressing(key, beta), for a key that fits
content_addressing(c, key, beta) ==
    LET key_norm == normalize(key)
        memory_norm == Eval([i \in Slots |-> normalize(c.memory[i])])
        similarity == Eval([i \in Slots |->
                         SumSeq([j \in Dims |-> FMul(memory_norm[i][j], key_norm[j])])])
    IN  softmax([i \in Slots |-> FMul(beta, similarity[i])])

\* the indices torch.sort(self.usage) may place first: sort is not stable by
\* default, so among equal usages the order is not determined
LeastUsed(usage) == {i \in Slots : \A j \in Slots : usage[i] <= usage[j]}

\* a usage vector left as it was
mark_used_skipped(usage, i) == usage

\* self.usage[allocated_idx] = 1.0
mark_used(usage, i) == [usage EXCEPT ![i] = Scale]

\* an allocation that takes the one-hot allocation vector as the new usage
allocate_memory_one_hot(c) ==
    { [ctl |-> [c EXCEPT !.usage = [j \in Slots |-> IF j = i THEN Scale ELSE 0]],
       idx |-> i] : i \in LeastUsed(c.usage) }

\* an allocation that forgets to mark the slot as used
allocate_memory_unmarked(c) ==
    { [ctl |-> c, idx |-> i] : i \in LeastUsed(c.usage) }

\* allocate_memory: every outcome [ctl, idx] the sort allows
allocate_memory(c) ==
    { [ctl |-> [c EXCEPT !.usage = mark_used(c.usage, i)], idx |-> i] :
        i \in LeastUsed(c.usage) }

\* self.memory[write_idx] = write_vector: a one-element vector is broadcast,
\* any other length than memory_dim raises
Assignable(v) == Len(v) = memory_dim \/ Len(v) = 1
Broadcast(v) == IF Len(v) = memory_dim THEN v ELSE [j \in Dims |-> v[1]]

\* the test "url is not None" in place of "if url"
IsNotNone(url) == url # <<>>

\* an Optional[str]: <<>> is None, <<s>> is the string s; "if url:"
IsTruthy(url) == url # <<>> /\ url[1] # ""

\* (write_idx - 1) // memory_size, the floor division in place of the remainder
PrevIdxFloorDiv(write_idx) == IF write_idx = 0 THEN memory_size - 1 ELSE 0

\* prev_idx = (write_idx - 1) % self.memory_size
PrevIdx(write_idx) == (write_idx - 1) % memory_size

\* an index that keeps only the newest url
url_index_replaced(url_index, url, write_idx) == [k \in {url} |-> write_idx]

\* self.url_index[url] = write_idx
url_index_set(url_index, url, write_idx) ==
    [k \in (DOMAIN url_index) \cup {url} |-> IF k = url THEN write_idx ELSE url_index[k]]

\* a precedence taken over from the write weights alone
precedence_overwritten(precedence, write_weights) == write_weights

\* (1 - write_weights) * self.precedence + write_weights
update_precedence(precedence, write_weights) ==
    Eval([i \in Slots |-> FMul(Scale - write_weights[i], precedence[i]) + write_weights[i]])

\* write after allocate_memory has returned write_idx and left the controller
\* c1: the outcome [ctl, ok, ret, idx]; ok = FALSE is a raised exception, ctl
\* the state it leaves; idx is the slot allocate_memory picked
write_at(c1, write_idx, write_vector, write_key, url, confidence) ==
    IF ~KeyFits(write_key)
    THEN [ctl |-> c1, ok |-> FALSE, ret |-> -1, idx |-> write_idx]
    ELSE IF ~Assignable(write_vector)
    THEN [ctl |-> c1, ok |-> FALSE, ret |-> -1, idx |-> write_idx]
    ELSE
      LET write_weights == content_addressing(c1, write_key, Scale)
          links == IF c1.total_writes > 0
                   THEN [c1.temporal_links EXCEPT ![PrevIdx(write_idx)][write_idx] = Scale]
                   ELSE c1.temporal_links
          index == IF IsTruthy(url)
                   THEN url_index_set(c1.url_index, url[1], write_idx)
                   ELSE c1.url_index
      IN  [ctl |-> [c1 EXCEPT
                      !.memory[write_idx] = Broadcast(write_vector),
                      !.confidence_scores[write_idx] = confidence,
                      !.url_index = index,
                      !.temporal_links = links,
                      !.precedence = update_precedence(c1.precedence, write_weights),
                      !.total_writes = c1.total_writes + 1],
           ok |-> TRUE, ret |-> write_idx, idx |-> write_idx]

\* write(write_vector, write_key, url, confidence): every outcome the sort of
\* allocate_memory allows
write(c, write_vector, write_key, url, confidence) ==
    { write_at(a.ctl, a.idx, write_vector, write_key, url, confidence) :
        a \in allocate_memory(c) }

\* torch.matmul(read_weights, self.temporal_links)
forward_weights(c, w) ==
    Eval([j \in Slots |-> SumSlots([i \in Slots |-> FMul(w[i], c.temporal_links[i][j])])])

\* torch.matmul(read_weights, self.temporal_links.T)
backward_weights(c, w) ==
    Eval([j \in Slots |-> SumSlots([i \in Slots |-> FMul(w[i], c.temporal_links[j][i])])])

\* the read weights with the temporal linkage applied whatever the flag says
read_weights_always_temporal(c, read_key, temporal) ==
    LET content == content_addressing(c, read_key, 2 * Scale)
    IN  IF c.total_writes > 0
        THEN LET fw == forward_weights(c, content)
                 bw == backward_weights(c, content)
             IN  normalize_l1([i \in Slots |->
                     FMul(Scale \div 2, content[i])
                       + FMul(Scale \div 4, fw[i])
                       + FMul(Scale \div 4, bw[i])])
        ELSE content

\* the blended weights applied without F.normalize(read_weights, p=1, dim=0)
read_weights_not_renormalized(c, read_key, temporal) ==
    LET content == content_addressing(c, read_key, 2 * Scale)
    IN  IF temporal /\ c.total_writes > 0
        THEN LET fw == forward_weights(c, content)
                 bw == backward_weights(c, content)
             IN  Eval([i \in Slots |->
                     FMul(Scale \div 2, content[i])
                       + FMul(Scale \div 4, fw[i])
                       + FMul(Scale \div 4, bw[i])])
        ELSE content

\* the weights read() applies to memory
read_weights(c, read_key, temporal) ==
    LET content == content_addressing(c, read_key, 2 * Scale)
    IN  IF temporal /\ c.total_writes > 0
        THEN LET fw == forward_weights(c, content)
                 bw == backward_weights(c, content)
             IN  normalize_l1([i \in Slots |->
                     FMul(Scale \div 2, content[i])
                       + FMul(Scale \div 4, fw[i])
                       + FMul(Scale \div 4, bw[i])])
        ELSE content

\* a read that also marks the slots it reads as used
read_marking_usage(c, read_key, temporal) ==
    IF ~KeyFits(read_key)
    THEN [ctl |-> c, ok |-> FALSE, ret |-> <<>>]
    ELSE LET w == read_weights(c, read_key, temporal)
         IN  [ctl |-> [c EXCEPT !.total_reads = c.total_reads + 1,
                                !.usage = [i \in Slots |-> Max(c.usage[i], w[i])]],
              ok |-> TRUE,
              ret |-> [j \in Dims |->
                         SumSlots([i \in Slots |-> FMul(w[i], c.memory[i][j])])]]

\* a read that counts itself among the writes
read_counted_as_write(c, read_key, temporal) ==
    IF ~KeyFits(read_key)
    THEN [ctl |-> c, ok |-> FALSE, ret |-> <<>>]
    ELSE LET w == read_weights(c, read_key, temporal)
         IN  [ctl |-> [c EXCEPT !.total_writes = c.total_writes + 1],
              ok |-> TRUE,
              ret |-> [j \in Dims |->
                         SumSlots([i \in Slots |-> FMul(w[i], c.memory[i][j])])]]

\* read(read_key, temporal): the outcome [ctl, ok, ret]
read(c, read_key, temporal) ==
    IF ~KeyFits(read_key)
    THEN [ctl |-> c, ok |-> FALSE, ret |-> <<>>]
    ELSE LET w == read_weights(c, read_key, temporal)
         IN  [ctl |-> [c EXCEPT !.total_reads = c.total_reads + 1],
              ok |-> TRUE,
              ret |-> [j \in Dims |->
                         SumSlots([i \in Slots |-> FMul(w[i], c.memory[i][j])])]]

\* the statistics with the confidence averaged over every slot
get_memory_stats_over_all(c) ==
    [ usage_mean |-> FDiv(SumSlots(c.usage), memory_size),
      usage_std |-> 0,
      total_writes |-> c.total_writes,
      total_reads |-> c.total_reads,
      unique_urls |-> Cardinality(DOMAIN c.url_index),
      avg_confidence |-> FDiv(SumSlots(c.confidence_scores), memory_size) ]

\* get_memory_stats(): usage.std() is the unbiased estimate, over memory_size - 1
get_memory_stats(c) ==
    LET usage_mean == FDiv(SumSlots(c.usage), memory_size)
        squares == Eval([i \in Slots |->
                      FMul(c.usage[i] - usage_mean, c.usage[i] - usage_mean)])
        variance == FDiv(SumSlots(squares), memory_size - 1)
        positive == {i \in Slots : c.confidence_scores[i] > 0}
        selected == Eval([i \in Slots |->
                       IF i \in positive THEN c.confidence_scores[i] ELSE 0])
    IN  [ usage_mean |-> usage_mean,
          usage_std |-> Sqrt(variance * Scale),
          total_writes |-> c.total_writes,
          total_reads |-> c.total_reads,
          unique_urls |-> Cardinality(DOMAIN c.url_index),
          avg_confidence |-> IF positive # {}
                             THEN FDiv(SumSlots(selected), Cardinality(positive))
                             ELSE 0 ]

\* add_extraction_task: the queue after the task has been put in; deque.insert(i, x)
\* puts x before the task at position i (positions are 1-based here)
add_extraction_task(queue, task) ==
    IF queue = <<>> \/ task.priority <= PriorityThreshold
    THEN Append(queue, task)
    ELSE LET lower == {i \in 1 .. Len(queue) : task.priority > queue[i].priority}
         IN  IF lower = {}
             THEN Append(queue, task)
             ELSE LET i == CHOOSE n \in lower : \A m \in lower : n <= m
                  IN  SubSeq(queue, 1, i - 1) \o <<task>> \o SubSeq(queue, i, Len(queue))

\* ------------------------------------------------------------------ inputs
U1 == UnitVec(1, Scale)
U2 == UnitVec(2, 2 * Scale)
Oblique == [j \in Dims |-> IF j <= 2 THEN Scale ELSE 0]
TooLong == [j \in 1 .. (memory_dim + 1) |-> Scale]
OneElement == <<Scale \div 2>>
Opposite == UnitVec(1, -Scale)
None == <<>>

Request(v, k, u, conf) ==
    [write_vector |-> v, write_key |-> k, url |-> u, confidence |-> conf]

WriteRequests ==
    { Request(U1, U1, None, Scale),
      Request(U2, ZeroVec, <<"a">>, Scale \div 2),
      Request(U2, Oblique, <<"b">>, 0),
      Request(U1, U1, <<"a">>, Scale + Scale \div 2),
      Request(U1, U2, <<"">>, Scale),
      Request(TooLong, U1, <<"a">>, Scale),
      Request(U1, TooLong, <<"b">>, Scale) }

ReadRequests ==
    { <<ZeroVec, FALSE>>, <<U1, FALSE>>, <<U1, TRUE>>, <<Oblique, TRUE>>,
      <<TooLong, FALSE>> }

StableRequests ==
    { Request(U1, U1, None, Scale),
      Request(U2, U2, <<"a">>, Scale \div 2),
      Request(OneElement, U1, <<"b">>, Scale) }

StableReads == { <<U1, TRUE>> }

PairVectors == {U1, U2}
PairQueries == {U1, Oblique}

BothWaysQueries == {ZeroVec, U1, U2, Oblique, Opposite}

OverwriteRequests ==
    { Request(U1, U1, None, Scale),
      Request(U2, U2, <<"a">>, Scale \div 2) }

ReportedRequests ==
    { Request(U1, U1, None, Scale),
      Request(U2, Oblique, <<"b">>, 0),
      Request(U1, U2, <<"a">>, -(Scale \div 2)),
      Request(U2, U1, <<"a">>, Scale + Scale \div 2),
      Request(TooLong, U1, <<"c">>, Scale) }

ReportedReads == { <<U1, TRUE>>, <<TooLong, FALSE>> }

Priorities ==
    { PriorityThreshold - 2, PriorityThreshold, PriorityThreshold + 1, PriorityThreshold + 3 }

AddressKeys == {U1, Oblique, Opposite, TooLong}
Sharpnesses == {-Scale, 0, Scale, 2 * Scale}

\* ------------------------------------------------------------------- state
\* dnc: the controller; peer: a second controller, used only by SpecPair;
\* last: the last call, its outcome and the controller before it;
\* returned: the indices the successful writes returned, in order;
\* raised: the number of writes that raised; steps: the number of calls;
\* completed_reads: the number of reads that returned;
\* callers: the callers of SpecCallers, each inside one write; lock: whether
\* their writes are serialized, and the caller that is inside a write;
\* task_queue: HRMDNCWebSystem.task_queue, used only by SpecQueue
VARIABLES dnc, peer, last, returned, raised, steps, completed_reads,
          callers, lock, task_queue

vars == <<dnc, peer, last, returned, raised, steps, completed_reads,
          callers, lock, task_queue>>

Callers == 1 .. NumCallers

Setup(serialized) ==
    /\ dnc = NewController
    /\ peer = NewController
    /\ last = [op |-> "init"]
    /\ returned = <<>>
    /\ raised = 0
    /\ steps = 0
    /\ completed_reads = 0
    /\ callers = [t \in Callers |-> [pc |-> "idle", idx |-> -1, free |-> -1]]
    /\ lock = [serialized |-> serialized, holder |-> 0]
    /\ task_queue = <<>>

\* one event loop runs every call: write holds no await, so the calls are serialized
Init == Setup(TRUE)

\* one call of dnc.write with one of the given outcomes, within a budget of calls
WriteCall(req, outcomes, budget) ==
    /\ steps < budget
    /\ \E out \in outcomes :
         /\ dnc' = out.ctl
         /\ last' = [op |-> "write", req |-> req, ok |-> out.ok, ret |-> out.ret,
                     pre |-> dnc,
                     prev |-> IF returned = <<>> THEN -1 ELSE returned[Len(returned)]]
         /\ returned' = IF out.ok THEN Append(returned, out.ret) ELSE returned
         /\ raised' = IF out.ok THEN raised ELSE raised + 1
    /\ steps' = steps + 1
    /\ UNCHANGED <<peer, completed_reads, callers, lock, task_queue>>

\* one call of dnc.read, within a budget of calls
ReadCall(read_key, temporal, budget) ==
    /\ steps < budget
    /\ LET out == read(dnc, read_key, temporal)
       IN  /\ dnc' = out.ctl
           /\ last' = [op |-> "read", read_key |-> read_key, temporal |-> temporal,
                       ok |-> out.ok, ret |-> out.ret, pre |-> dnc]
           /\ completed_reads' = IF out.ok THEN completed_reads + 1 ELSE completed_reads
    /\ steps' = steps + 1
    /\ UNCHANGED <<peer, returned, raised, callers, lock, task_queue>>

Write(req) ==
    WriteCall(req, write(dnc, req.write_vector, req.write_key, req.url, req.confidence),
              MaxOps)

Read(read_key, temporal) == ReadCall(read_key, temporal, MaxOps)

Next ==
    \/ \E req \in WriteRequests : Write(req)
    \/ \E rr \in ReadRequests : Read(rr[1], rr[2])

Spec == Init /\ [][Next]_vars

\* -------------------------------------------- the build whose sort is stable
\* the outcomes of write where the sort put the lowest least-used index first
StableOutcomes(req) ==
    { out \in write(dnc, req.write_vector, req.write_key, req.url, req.confidence) :
        \A j \in LeastUsed(dnc.usage) : out.idx <= j }

WriteStable(req) == WriteCall(req, StableOutcomes(req), MaxStableOps)

ReadStable(read_key, temporal) == ReadCall(read_key, temporal, MaxStableOps)

NextStable ==
    \/ \E req \in StableRequests : WriteStable(req)
    \/ \E rr \in StableReads : ReadStable(rr[1], rr[2])

SpecStable == Init /\ [][NextStable]_vars

\* ------------------------------------- content addressing called on its own
\* one call of dnc.content_addressing(key, beta)
ContentAddressing(key, beta) ==
    /\ last' = [op |-> "content_addressing", key |-> key, beta |-> beta,
                ok |-> KeyFits(key),
                ret |-> IF KeyFits(key) THEN content_addressing(dnc, key, beta) ELSE <<>>,
                pre |-> dnc]
    /\ UNCHANGED <<dnc, peer, returned, raised, steps, completed_reads,
                   callers, lock, task_queue>>

\* the writes that fill the memory content addressing is called on
WriteAddressed(req) == WriteCall(req, StableOutcomes(req), MaxAddressedWrites)

NextAddressing ==
    \/ \E req \in StableRequests : WriteAddressed(req)
    \/ \E key \in AddressKeys, beta \in Sharpnesses : ContentAddressing(key, beta)

SpecAddressing == Init /\ [][NextAddressing]_vars

\* --------------------------------------------- the statistics, as reported
\* one call of dnc.get_memory_stats()
GetMemoryStats ==
    /\ last' = [op |-> "get_memory_stats", ret |-> get_memory_stats(dnc), pre |-> dnc]
    /\ UNCHANGED <<dnc, peer, returned, raised, steps, completed_reads,
                   callers, lock, task_queue>>

WriteReported(req) == WriteCall(req, StableOutcomes(req), MaxReportedCalls)

ReadReported(read_key, temporal) == ReadCall(read_key, temporal, MaxReportedCalls)

NextReported ==
    \/ \E req \in ReportedRequests : WriteReported(req)
    \/ \E rr \in ReportedReads : ReadReported(rr[1], rr[2])
    \/ GetMemoryStats

SpecReported == Init /\ [][NextReported]_vars

\* ------------------------------------------- several callers, each in one write
\* Every caller issues one dnc.write(U1, U1). When lock.serialized holds, a
\* write runs from the sort of allocate_memory to its return with no other
\* write in between, as on the event loop of process_extraction_task, whose
\* call of write holds no await; otherwise the callers are threads, and a
\* switch may fall between the sort and the assignment to self.usage.
InitCallers == \E serialized \in BOOLEAN : Setup(serialized)

NeverWritten(c) == {i \in Slots : c.usage[i] = 0}

\* the caller issues its write
Call(t) ==
    /\ callers[t].pc = "idle"
    /\ callers' = [callers EXCEPT ![t].pc = "called",
                                  ![t].free = Cardinality(NeverWritten(dnc))]
    /\ UNCHANGED <<dnc, peer, last, returned, raised, steps, completed_reads,
                   lock, task_queue>>

\* allocate_memory up to allocated_idx = indices[0].item()
Select(t) ==
    /\ callers[t].pc = "called"
    /\ lock.serialized => lock.holder = 0
    /\ \E i \in LeastUsed(dnc.usage) :
         callers' = [callers EXCEPT ![t].pc = "selected", ![t].idx = i]
    /\ lock' = IF lock.serialized THEN [lock EXCEPT !.holder = t] ELSE lock
    /\ UNCHANGED <<dnc, peer, last, returned, raised, steps, completed_reads, task_queue>>

\* allocate_memory from self.usage[allocated_idx] = 1.0 on, and the rest of write
Finish(t) ==
    /\ callers[t].pc = "selected"
    /\ LET i == callers[t].idx
           c1 == [dnc EXCEPT !.usage = mark_used(dnc.usage, i)]
           out == write_at(c1, i, U1, U1, None, Scale)
       IN  /\ dnc' = out.ctl
           /\ last' = [op |-> "caller_write", caller |-> t, ok |-> out.ok,
                       ret |-> out.ret, pre |-> dnc]
           /\ returned' = Append(returned, out.ret)
    /\ callers' = [callers EXCEPT ![t].pc = "done"]
    /\ lock' = IF lock.serialized THEN [lock EXCEPT !.holder = 0] ELSE lock
    /\ steps' = steps + 1
    /\ UNCHANGED <<peer, raised, completed_reads, task_queue>>

NextCallers ==
    \/ \E t \in Callers : Call(t)
    \/ \E t \in Callers : Select(t)
    \/ \E t \in Callers : Finish(t)

SpecCallers == InitCallers /\ [][NextCallers]_vars

\* ------------------------------------------- writes after the memory is full
Full(usage) == \A i \in Slots : usage[i] = Scale

\* one call of dnc.write with one of the given outcomes; after_full tells
\* whether the call before this one was a write that returned and that found
\* every usage at 1.0
WriteOver(req, outcomes) ==
    /\ steps < MaxOverwrites
    /\ \E out \in outcomes :
         /\ dnc' = out.ctl
         /\ last' = [op |-> "write", req |-> req, ok |-> out.ok, ret |-> out.ret,
                     pre |-> dnc,
                     prev |-> IF returned = <<>> THEN -1 ELSE returned[Len(returned)],
                     after_full |-> /\ last.op = "write"
                                    /\ last.ok
                                    /\ Full(last.pre.usage)]
         /\ returned' = IF out.ok THEN Append(returned, out.ret) ELSE returned
         /\ raised' = IF out.ok THEN raised ELSE raised + 1
    /\ steps' = steps + 1
    /\ UNCHANGED <<peer, completed_reads, callers, lock, task_queue>>

Overwrite(req) ==
    WriteOver(req, write(dnc, req.write_vector, req.write_key, req.url, req.confidence))

NextOverwrite == \E req \in OverwriteRequests : Overwrite(req)

SpecOverwrite == Init /\ [][NextOverwrite]_vars

\* the same calls on the build whose sort is stable
OverwriteStable(req) == WriteOver(req, StableOutcomes(req))

NextOverwriteStable == \E req \in OverwriteRequests : OverwriteStable(req)

SpecOverwriteStable == Init /\ [][NextOverwriteStable]_vars

\* --------------------------------- one query read with and without the links
\* dnc.read(read_key, temporal=True) followed by dnc.read(read_key, temporal=False)
ReadBothWays(read_key) ==
    /\ steps < MaxBothWaysCalls
    /\ LET linked == read(dnc, read_key, TRUE)
           plain == read(linked.ctl, read_key, FALSE)
       IN  /\ dnc' = plain.ctl
           /\ last' = [op |-> "read_both_ways", read_key |-> read_key,
                       ok |-> linked.ok /\ plain.ok,
                       ret |-> linked.ret, plain_ret |-> plain.ret, pre |-> dnc]
           /\ completed_reads' = completed_reads + (IF linked.ok THEN 1 ELSE 0)
                                                 + (IF plain.ok THEN 1 ELSE 0)
    /\ steps' = steps + 1
    /\ UNCHANGED <<peer, returned, raised, callers, lock, task_queue>>

WriteBothWays(req) == WriteCall(req, StableOutcomes(req), MaxBothWaysCalls)

NextBothWays ==
    \/ \E req \in WriteRequests : WriteBothWays(req)
    \/ \E q \in BothWaysQueries : ReadBothWays(q)

SpecBothWays == Init /\ [][NextBothWays]_vars

\* ------------------------------------------------------------ the task queue
\* one call of system.add_extraction_task(urls, priority); task_id stands for
\* the task's identifier and is the ordinal of the call
AddExtractionTask(priority) ==
    /\ steps < MaxTasks
    /\ LET task == [task_id |-> steps + 1, priority |-> priority]
       IN  /\ task_queue' = add_extraction_task(task_queue, task)
           /\ last' = [op |-> "add_extraction_task", task |-> task,
                       ret |-> task.task_id, pre |-> task_queue]
    /\ steps' = steps + 1
    /\ UNCHANGED <<dnc, peer, returned, raised, completed_reads, callers, lock>>

NextQueue == \E priority \in Priorities : AddExtractionTask(priority)

SpecQueue == Init /\ [][NextQueue]_vars

\* ------------------------------------------------- two controllers, side by side
\* the collection of vectors a controller stores, whatever their slots
StoredVectors(c) ==
    [v \in {c.memory[i] : i \in Slots} |-> Cardinality({i \in Slots : c.memory[i] = v})]

\* the number of slots of a controller that store v
Stored(c, v) == Cardinality({i \in Slots : c.memory[i] = v})

\* dnc.write(v, v), before the peer is filled
WriteDnc(v) ==
    /\ last.op # "read_both"
    /\ peer.total_writes = 0
    /\ dnc.total_writes < MaxPairWrites
    /\ \E out \in write(dnc, v, v, None, Scale) : dnc' = out.ctl
    /\ last' = [op |-> "write_pair"]
    /\ UNCHANGED <<peer, returned, raised, steps, completed_reads, callers, lock, task_queue>>

\* peer.write(v, v): the peer is filled with the vectors dnc stores, in any order
WritePeer(v) ==
    /\ last.op # "read_both"
    /\ Stored(peer, v) < Stored(dnc, v)
    /\ \E out \in write(peer, v, v, None, Scale) : peer' = out.ctl
    /\ last' = [op |-> "write_pair"]
    /\ UNCHANGED <<dnc, returned, raised, steps, completed_reads, callers, lock, task_queue>>

\* dnc.read(q) and peer.read(q), both without temporal linkage, once the two
\* controllers store the same collection of vectors
ReadBoth(q) ==
    /\ last.op # "read_both"
    /\ dnc.total_writes > 0
    /\ StoredVectors(dnc) = StoredVectors(peer)
    /\ LET a == read(dnc, q, FALSE)
           b == read(peer, q, FALSE)
       IN  /\ dnc' = a.ctl
           /\ peer' = b.ctl
           /\ last' = [op |-> "read_both", read_key |-> q, ret |-> a.ret, peer_ret |-> b.ret]
    /\ UNCHANGED <<returned, raised, steps, completed_reads, callers, lock, task_queue>>

NextPair ==
    \/ \E v \in PairVectors : WriteDnc(v)
    \/ \E v \in PairVectors : WritePeer(v)
    \/ \E q \in PairQueries : ReadBoth(q)

SpecPair == Init /\ [][NextPair]_vars

\* ------------------------------------------------------------------ claims
Links(c) == {<<i, j>> \in Slots \X Slots : c.temporal_links[i][j] # 0}
OneHot(k) == [i \in Slots |-> IF i = k THEN Scale ELSE 0]
Uniform == [i \in Slots |-> Scale \div memory_size]
WriteReturned == last.op = "write" /\ last.ok

C2_FirstWritesDistinct ==
    raised = 0 =>
        /\ \A a, b \in 1 .. Len(returned) :
              (a < b /\ b <= memory_size) => returned[a] # returned[b]
        /\ Len(returned) >= memory_size =>
              {returned[a] : a \in 1 .. memory_size} = Slots

C2_Witness == raised = 0 /\ Len(returned) = memory_size

\* C3: after a write that is not the first, the link from the index the preceding
\* write returned to the index this write returned is 1 and every other link out
\* of that preceding index is 0; the first write leaves the links as they were.
C3_LinkFromPrecedingWrite ==
    WriteReturned =>
        IF last.prev = -1
        THEN dnc.temporal_links = last.pre.temporal_links
        ELSE /\ dnc.temporal_links[last.prev][last.ret] = Scale
             /\ \A j \in Slots \ {last.ret} : dnc.temporal_links[last.prev][j] = 0

\* C4: every link is 0 or 1 and every row of the link matrix has at most one
\* nonzero entry.
C4_LinkRows ==
    \A i \in Slots :
        /\ \A j \in Slots : dnc.temporal_links[i][j] \in {0, Scale}
        /\ Cardinality({j \in Slots : dnc.temporal_links[i][j] # 0}) <= 1

C4_Witness == Cardinality(Links(dnc)) >= 2

\* C5: a write called with a confidence outside [0,1] fails and leaves the
\* controller as it was.
C5_InvalidConfidenceRejected ==
    (last.op = "write" /\ (last.req.confidence < 0 \/ last.req.confidence > Scale)) =>
        (~last.ok /\ dnc = last.pre)

\* C6: a read, with or without temporal linkage, leaves memory, confidence
\* scores, usage, temporal links, precedence and the URL index unchanged.
C6_ReadFrame ==
    last.op = "read" =>
        /\ dnc.memory = last.pre.memory
        /\ dnc.confidence_scores = last.pre.confidence_scores
        /\ dnc.usage = last.pre.usage
        /\ dnc.temporal_links = last.pre.temporal_links
        /\ dnc.precedence = last.pre.precedence
        /\ dnc.url_index = last.pre.url_index

C6_Witness ==
    /\ last.op = "read" /\ last.ok /\ last.temporal
    /\ Links(dnc) # {}
    /\ \E j \in Dims : last.ret[j] # 0

\* C7 as stated: after a write that returns and was given the key k the index
\* maps k to the returned slot; a write given no key leaves the index unchanged.
C7_KeyIndexed ==
    WriteReturned =>
        IF last.req.url # None
        THEN /\ last.req.url[1] \in DOMAIN dnc.url_index
             /\ dnc.url_index[last.req.url[1]] = last.ret
        ELSE dnc.url_index = last.pre.url_index

\* C7 as amended: after a write that returns and was given a non-empty key k the
\* index maps k to the returned slot and every other key as before; a write
\* given no key, or the empty string, leaves the index unchanged.
C7_NonEmptyKeyIndexed ==
    WriteReturned =>
        IF last.req.url # None /\ last.req.url[1] # ""
        THEN /\ DOMAIN dnc.url_index = (DOMAIN last.pre.url_index) \cup {last.req.url[1]}
             /\ dnc.url_index[last.req.url[1]] = last.ret
             /\ \A k \in DOMAIN last.pre.url_index :
                   k # last.req.url[1] => dnc.url_index[k] = last.pre.url_index[k]
        ELSE dnc.url_index = last.pre.url_index

C7_Witness ==
    /\ WriteReturned
    /\ last.req.url = <<"a">>
    /\ "a" \in DOMAIN last.pre.url_index
    /\ last.pre.url_index["a"] # last.ret
    /\ dnc.url_index["a"] = last.ret

\* C8: two controllers that store the same collection of vectors, written in
\* whatever order and slots, return the same vector for a read of the same key
\* without temporal linkage.
C8_ReadIgnoresWriteOrder ==
    last.op = "read_both" => last.ret = last.peer_ret

C8_Witness ==
    /\ last.op = "read_both"
    /\ dnc.memory # peer.memory
    /\ dnc.temporal_links # peer.temporal_links
    /\ dnc.total_writes >= 2
    /\ \E j \in Dims : last.ret[j] # 0

\* C9: after a write B that follows a write A, forward propagation of the
\* weights that are 1 on A's slot and 0 elsewhere gives the weights that are 1 on
\* B's slot and 0 elsewhere.
C9_ForwardReachesNextWrite ==
    (WriteReturned /\ last.prev # -1) =>
        forward_weights(dnc, OneHot(last.prev)) = OneHot(last.ret)

\* C10: content addressing of an all-zero key gives every slot the weight
\* 1/memory_size, and so does any key while every stored vector is zero; a read
\* of the all-zero key without temporal linkage returns the plain mean of memory.
C10_ZeroKeyUniform ==
    /\ \A beta \in {Scale, 2 * Scale} : content_addressing(dnc, ZeroVec, beta) = Uniform
    /\ (\A i \in Slots : dnc.memory[i] = ZeroVec) =>
          \A key \in {U1, U2, Oblique}, beta \in {Scale, 2 * Scale} :
              content_addressing(dnc, key, beta) = Uniform
    /\ (last.op = "read" /\ last.ok /\ last.read_key = ZeroVec /\ ~last.temporal) =>
          last.ret = [j \in Dims |->
                        SumSlots([i \in Slots |-> FMul(Uniform[i], last.pre.memory[i][j])])]

C10_Witness ==
    /\ last.op = "read" /\ last.ok /\ last.read_key = ZeroVec
    /\ \E i \in Slots : dnc.memory[i] # ZeroVec
    /\ \E j \in Dims : last.ret[j] # 0

\* C11: content addressing with a key that is not the zero vector returns
\* weights that are all non-negative and that sum to 1, up to the rounding of
\* one unit per slot.
C11_WeightsAreDistribution ==
    (last.op = "content_addressing" /\ last.ok /\ last.key # ZeroVec) =>
        /\ \A i \in Slots : last.ret[i] >= 0
        /\ SumSlots(last.ret) <= Scale
        /\ SumSlots(last.ret) >= Scale - memory_size

C11_Witness ==
    /\ last.op = "content_addressing" /\ last.ok
    /\ last.key = Opposite
    /\ last.beta = 2 * Scale
    /\ \E i, j \in Slots : last.ret[i] < last.ret[j] /\ last.ret[i] > 0
    /\ \E i \in Slots : dnc.memory[i] = U1

\* C12: content addressing called with a sharpness that is zero or negative
\* is rejected and returns no weights.
C12_NonPositiveSharpnessRejected ==
    (last.op = "content_addressing" /\ last.beta <= 0) => (~last.ok /\ last.ret = <<>>)

\* C13: the statistics report an average confidence of 0 when no slot has a
\* confidence above 0 and total writes 0 when no write has returned; otherwise
\* the average is the mean of the confidences above 0 and of no other slot.
PositiveConfidence(c) == {i \in Slots : c.confidence_scores[i] > 0}
SumOver(set, f) == SumSlots([i \in Slots |-> IF i \in set THEN f[i] ELSE 0])

C13_AverageOverPositive ==
    last.op = "get_memory_stats" =>
        LET positive == PositiveConfidence(dnc)
            total == SumOver(positive, dnc.confidence_scores)
            avg == last.ret.avg_confidence
        IN  /\ positive = {} => avg = 0
            /\ positive # {} =>
                  /\ avg * Cardinality(positive) <= total
                  /\ total < (avg + 1) * Cardinality(positive)
            /\ returned = <<>> => last.ret.total_writes = 0

C13_Witness ==
    /\ last.op = "get_memory_stats"
    /\ last.ret.avg_confidence > 0
    /\ \E i \in Slots : dnc.confidence_scores[i] < 0
    /\ \E i \in Slots : dnc.usage[i] > 0 /\ dnc.confidence_scores[i] = 0
    /\ Cardinality(PositiveConfidence(dnc)) = 1

\* C14: a write that returns has stored the given vector and the given
\* confidence at the slot it returns and set that slot's usage to 1; vector,
\* confidence and usage of every other slot are as before, and the slots are
\* still the memory_size slots.
SlotsOnly(c) ==
    /\ DOMAIN c.memory = Slots
    /\ DOMAIN c.confidence_scores = Slots
    /\ DOMAIN c.usage = Slots

OthersKept(pre, c, k) ==
    \A i \in Slots \ {k} :
        /\ c.memory[i] = pre.memory[i]
        /\ c.confidence_scores[i] = pre.confidence_scores[i]
        /\ c.usage[i] = pre.usage[i]

C14_WriteFrame ==
    WriteReturned =>
        /\ dnc.memory[last.ret] = last.req.write_vector
        /\ dnc.confidence_scores[last.ret] = last.req.confidence
        /\ dnc.usage[last.ret] = Scale
        /\ OthersKept(last.pre, dnc, last.ret)
        /\ SlotsOnly(dnc)

\* C15: when every write runs as one exclusive section, two writes issued
\* while at least two slots were never written are given distinct slots; when
\* the selection and the usage assignment of two writes may interleave, both
\* writes can be given the same slot (C15_InterleavedSameSlot is reachable).
IssuedWithTwoFree(t) == callers[t].pc = "done" /\ callers[t].free >= 2

C15_SerializedWritesDistinct ==
    lock.serialized =>
        \A t, u \in Callers :
            (t # u /\ IssuedWithTwoFree(t) /\ IssuedWithTwoFree(u)) =>
                callers[t].idx # callers[u].idx

C15_InterleavedSameSlot ==
    /\ ~lock.serialized
    /\ \E t, u \in Callers :
         /\ t # u /\ IssuedWithTwoFree(t) /\ IssuedWithTwoFree(u)
         /\ callers[t].idx = callers[u].idx

\* C16: the usage of every slot lies between 0 and 1, and a slot that has
\* been written never has usage 0 again: neither a write nor a read takes a
\* usage above 0 back to 0, and every slot a write returned has usage above 0.
C16_UsageWithinUnit ==
    /\ \A i \in Slots : dnc.usage[i] >= 0 /\ dnc.usage[i] <= Scale
    /\ \A n \in 1 .. Len(returned) : dnc.usage[returned[n]] > 0
    /\ last.op \in {"write", "read"} =>
          \A i \in Slots : last.pre.usage[i] > 0 => dnc.usage[i] > 0

C16_Witness ==
    /\ Len(returned) = 2
    /\ last.op = "read" /\ last.ok /\ last.temporal
    /\ \E i \in Slots : dnc.usage[i] = 0
    /\ dnc.usage[returned[1]] = Scale

\* C17: every entry of the precedence vector lies between 0 and 1, and a
\* write leaves no entry of it smaller than it was.
C17_PrecedenceGrows ==
    /\ \A i \in Slots : dnc.precedence[i] >= 0 /\ dnc.precedence[i] <= Scale
    /\ last.op = "write" =>
          \A i \in Slots : dnc.precedence[i] >= last.pre.precedence[i]

C17_Witness ==
    /\ WriteReturned
    /\ \E i \in Slots : last.pre.precedence[i] > 0
                         /\ dnc.precedence[i] > last.pre.precedence[i]
    /\ \E i, j \in Slots : dnc.precedence[i] # dnc.precedence[j]

\* C18: no call removes a key from the key index, and a key keeps its slot
\* unless a write supplies that very key: a write that reuses a slot under
\* another key, or under no key, leaves the earlier keys of that slot mapped
\* to it.
Supplies(k) == WriteReturned /\ IsTruthy(last.req.url) /\ last.req.url[1] = k

C18_KeysNeverRemoved ==
    last.op \in {"write", "read"} =>
        /\ DOMAIN last.pre.url_index \subseteq DOMAIN dnc.url_index
        /\ \A k \in DOMAIN last.pre.url_index :
              ~Supplies(k) => dnc.url_index[k] = last.pre.url_index[k]

C18_Witness ==
    /\ WriteReturned
    /\ IsTruthy(last.req.url)
    /\ last.pre.usage[last.ret] = Scale
    /\ \E k \in DOMAIN last.pre.url_index :
         /\ k # last.req.url[1]
         /\ last.pre.url_index[k] = last.ret
         /\ dnc.url_index[k] = last.ret
         /\ dnc.url_index[last.req.url[1]] = last.ret

\* C19: the write counter is the number of writes that returned and the
\* read counter the number of reads that returned: a write that returns adds
\* one to the write counter and leaves the read counter, a read leaves the
\* write counter, and the statistics report both counters.
C19_CountersCountCalls ==
    /\ dnc.total_writes = Len(returned)
    /\ dnc.total_reads = completed_reads
    /\ last.op = "write" =>
          /\ dnc.total_writes = last.pre.total_writes + (IF last.ok THEN 1 ELSE 0)
          /\ dnc.total_reads = last.pre.total_reads
    /\ last.op = "read" =>
          /\ dnc.total_writes = last.pre.total_writes
          /\ dnc.total_reads = last.pre.total_reads + (IF last.ok THEN 1 ELSE 0)
    /\ last.op = "get_memory_stats" =>
          /\ last.ret.total_writes = Len(returned)
          /\ last.ret.total_reads = completed_reads

C19_Witness ==
    /\ last.op = "get_memory_stats"
    /\ last.ret.total_writes = 1
    /\ last.ret.total_reads = 1
    /\ raised = 1

\* C20: higher priority tasks go first: no task of the queue stands behind
\* a task of strictly lower priority, and tasks of equal priority stand in
\* the order in which they were added.
C20_HigherPriorityFirst ==
    \A i, j \in 1 .. Len(task_queue) :
        i < j =>
            /\ task_queue[i].priority >= task_queue[j].priority
            /\ task_queue[i].priority = task_queue[j].priority =>
                  task_queue[i].task_id < task_queue[j].task_id

MaxEntry(c) ==
    LET entries == {Abs(c.memory[i][j]) : i \in Slots, j \in Dims}
    IN  CHOOSE m \in entries : \A e \in entries : e <= m

BlendRounding(c) == FDiv((7 * memory_size + 2) * MaxEntry(c), Scale) + 2 * memory_size

C22_LinklessTemporalRead ==
    (last.op = "read_both_ways" /\ last.ok /\ Links(dnc) = {}) =>
        /\ dnc.total_writes = 0 => last.ret = last.plain_ret
        /\ \A j \in Dims :
              Abs(last.ret[j] - last.plain_ret[j]) <= BlendRounding(dnc)

C22_Witness ==
    /\ last.op = "read_both_ways" /\ last.ok
    /\ Links(dnc) = {}
    /\ dnc.total_writes = 1
    /\ last.read_key = Oblique
    /\ \E j \in Dims : last.plain_ret[j] > Scale

\* C23: a write that raises because the vector or the key has not
\* memory_dim entries leaves usage, vectors, confidences, links, the key
\* index and the write counter as they were.
WriteRaised == last.op = "write" /\ ~last.ok

C23_FailedWriteChangesNothing ==
    WriteRaised =>
        /\ dnc.usage = last.pre.usage
        /\ dnc.memory = last.pre.memory
        /\ dnc.confidence_scores = last.pre.confidence_scores
        /\ dnc.temporal_links = last.pre.temporal_links
        /\ dnc.url_index = last.pre.url_index
        /\ dnc.total_writes = last.pre.total_writes

====
